---------------------------- MODULE Spec2Model ----------------------------
(***************************************************************************)
(* CPU-Scheduling-Simulation: the driver (main.c) and the four schedulers  *)
(* (fcfs.c, sjf.c, rr.c) with the shared metrics computation (common.c).   *)
(*                                                                         *)
(* Arrays are functions over 0..n-1, as in the C source.  A scheduler's    *)
(* loop iteration is one action.  The locals of the scheduler that is      *)
(* running (current_time, completed, is_completed, i, ready_queue,         *)
(* next_arrival_idx) are variables; a scheduler call initialises the ones  *)
(* it declares.  `gantt` is a history variable: the simulated timeline,    *)
(* one entry per executed slice or idle jump of the running scheduler.     *)
(* The field `priority` of Process is left out: no scheduler and no        *)
(* metric reads it.  Under Spec (and FairSpec) malloc and calloc succeed    *)
(* and time_quantum has passed main's validation; AllocSpec lets every     *)
(* allocation fail, CallSpec calls rr_schedule with any quantum.           *)
(***************************************************************************)
EXTENDS Integers, Sequences, FiniteSets, TLC

\* ------------------------------------------------------------- bounds
MaxN == 2
MaxArrival == 2
MaxBurst == 3
MaxQuantum == 2

\* ---------------------------------------------------- program constants
INT_MAX == 2147483647
QueueFactor == 100

\* shortest_job_idx = -1: no process; also the owner of an idle entry of gantt.
NO_JOB == -1

\* A pointer that points to no array, queue or result yet.
NULL == <<>>

VARIABLES
    algorithm,          \* main: -a option
    time_quantum,       \* main: -q option
    processes,          \* main: the array read_processes loaded
    n,                  \* main: number of processes
    qsort_order,        \* the order the C library's qsort gives this input
    pc,                 \* position in main / in the running scheduler
    fcfs_processes, sjf_processes, srtf_processes, rr_processes,
    fcfs_metrics, sjf_metrics, srtf_metrics, rr_metrics,
    current_time, completed, is_completed, i,
    ready_queue, next_arrival_idx,
    gantt

mainVars == <<algorithm, time_quantum, processes, n, qsort_order>>
copyVars == <<fcfs_processes, sjf_processes, srtf_processes, rr_processes>>
metricVars == <<fcfs_metrics, sjf_metrics, srtf_metrics, rr_metrics>>
localVars == <<current_time, completed, is_completed, i, ready_queue,
               next_arrival_idx>>
vars == <<mainVars, pc, copyVars, metricVars, localVars, gantt>>

Algorithms == {"all", "fcfs", "sjf", "srtf", "rr"}

\* ------------------------------------------------------------ common.c

\* read_processes: the fields a freshly loaded row starts with.
NewProcess(id, arrival, burst) ==
    [id |-> id, arrival_time |-> arrival, burst_time |-> burst,
     remaining_time |-> burst, completion_time |-> 0, turnaround_time |-> 0,
     waiting_time |-> 0, response_time |-> -1, started |-> FALSE]

\* copy_processes: malloc + memcpy of the whole array.
copy_processes(src) == [k \in DOMAIN src |-> src[k]]

RECURSIVE SumOver(_, _, _)
SumOver(procs, field, k) ==
    IF k = 0 THEN 0 ELSE procs[k - 1][field] + SumOver(procs, field, k - 1)

\* Mutants: the turnaround forgets the arrival; the waiting time takes off
\* what is left of the burst instead of the burst.
TurnaroundFromZero(p) == p.completion_time
WaitingLessRemaining(p, turnaround) == turnaround - p.remaining_time

\* Mutant: the waiting time is the time to the first dispatch only.
WaitingIsResponse(p, turnaround) == p.response_time

\* calculate_metrics, the per-process part: the two derived fields.
TurnaroundOf(p) == p.completion_time - p.arrival_time
WaitingOf(p, turnaround) == turnaround - p.burst_time

MetricsProcesses(procs) ==
    [k \in DOMAIN procs |->
        LET tat == TurnaroundOf(procs[k])
        IN  [procs[k] EXCEPT !.turnaround_time = tat,
                             !.waiting_time = WaitingOf(procs[k], tat)]]

\* A float is sign * m * 2^(-k): m = 0, or m in [2^23, 2^24) (24 significant
\* bits, as in IEEE single precision).
Pow2(k) == 2 ^ k
Abs(x) == IF x < 0 THEN -x ELSE x

\* The least k >= from with a * 2^k >= 2^23 * d, for a > 0.
RECURSIVE Scale(_, _, _)
Scale(a, d, from) ==
    IF a * Pow2(from) >= Pow2(23) * d THEN from ELSE Scale(a, d, from + 1)

\* common.c 138-140: total / n, a float total (a sum of small integers, held
\* exactly) divided by n, rounded to nearest, ties to even.
FloatDiv(total, d) ==
    IF total = 0 THEN [sign |-> 0, m |-> 0, k |-> 0]
    ELSE LET a == Abs(total)
             k == Scale(a, d, 0)
             q == (a * Pow2(k)) \div d
             r == (a * Pow2(k)) % d
             m == IF 2 * r > d \/ (2 * r = d /\ q % 2 = 1) THEN q + 1 ELSE q
         IN  IF m = Pow2(24)
             THEN [sign |-> IF total < 0 THEN -1 ELSE 1, m |-> Pow2(23), k |-> k - 1]
             ELSE [sign |-> IF total < 0 THEN -1 ELSE 1, m |-> m, k |-> k]

\* x <= y for two floats that are not negative.
FloatLeq(x, y) ==
    \/ x.sign = 0
    \/ y.sign = 1 /\ x.sign = 1 /\ (x.k > y.k \/ (x.k = y.k /\ x.m <= y.m))

\* calculate_metrics, the aggregate.
MetricsOf(procs, cnt) ==
    LET done == MetricsProcesses(procs)
    IN  [avg_turnaround_time |-> FloatDiv(SumOver(done, "turnaround_time", cnt), cnt),
         avg_waiting_time |-> FloatDiv(SumOver(done, "waiting_time", cnt), cnt),
         avg_response_time |-> FloatDiv(SumOver(done, "response_time", cnt), cnt)]

\* ------------------------------------------------------ qsort by arrival

\* Mutant: the comparator's operands are swapped.
compare_arrival_descending(a, b) == b.arrival_time - a.arrival_time

compare_arrival_time(a, b) == a.arrival_time - b.arrival_time

IndexPermutations(cnt) ==
    {f \in [0..cnt-1 -> 0..cnt-1] : \A a, b \in 0..cnt-1 : a # b => f[a] # f[b]}

\* Every order qsort may leave: sorted under the comparator, elements that
\* compare equal in any relative order (qsort is not stable).
SortedOrders(procs, cnt) ==
    {f \in IndexPermutations(cnt) :
        \A a, b \in 0..cnt-1 :
            a < b => compare_arrival_time(procs[f[a]], procs[f[b]]) <= 0}

\* qsort(processes, n, sizeof(Process), compare_arrival_time) on a copy of
\* the loaded array.  The library routine is a function of its input, and
\* every scheduler of one run sorts an identical copy, so one order serves
\* the run; which order it is, is left open (qsort_order).
qsort(procs) == [k \in DOMAIN procs |-> procs[qsort_order[k]]]

\* --------------------------------------------------------------- gantt
Slice(idx, from, to) == [idx |-> idx, from |-> from, to |-> to]

\* ---------------------------------------------------------------- Init
InputRows == [arrival_time : 0..MaxArrival, burst_time : 1..MaxBurst]

Load(rows) ==
    [k \in DOMAIN rows |->
        NewProcess(k + 1, rows[k].arrival_time, rows[k].burst_time)]

\* The scenario of the specification: P1(0,5), P2(1,3), P3(2,8).
Scenario ==
    [k \in 0..2 |-> NewProcess(k + 1, k, IF k = 0 THEN 5 ELSE IF k = 1 THEN 3 ELSE 8)]

ProcessSets ==
    UNION {{Load(rows) : rows \in [0..cnt-1 -> InputRows]} : cnt \in 1..MaxN}
    \cup {Scenario}

Init ==
    /\ algorithm \in Algorithms
    /\ time_quantum \in 1..MaxQuantum
    /\ processes \in ProcessSets
    /\ n = Cardinality(DOMAIN processes)
    /\ qsort_order \in SortedOrders(processes, Cardinality(DOMAIN processes))
    /\ pc = "fcfs"
    /\ fcfs_processes = NULL /\ sjf_processes = NULL
    /\ srtf_processes = NULL /\ rr_processes = NULL
    /\ fcfs_metrics = NULL /\ sjf_metrics = NULL
    /\ srtf_metrics = NULL /\ rr_metrics = NULL
    /\ current_time = 0 /\ completed = 0 /\ is_completed = <<>> /\ i = 0
    /\ ready_queue = NULL /\ next_arrival_idx = 0
    /\ gantt = <<>>

Selected(name) == algorithm = "all" \/ algorithm = name

\* The history keeps at most GanttCap entries: more loop iterations than any
\* run needs, each executed slice taking at least one of the burst units and
\* each idle jump reaching a new arrival.
GanttCap == SumOver(processes, "burst_time", n) + n

Record(history, entry) ==
    IF Len(history) < GanttCap THEN Append(history, entry) ELSE history

\* Mutant: the first dispatch stores the clock, not the wait since arrival.
DispatchAbsolute(p, t) ==
    IF ~p.started
    THEN [p EXCEPT !.response_time = t, !.started = TRUE]
    ELSE p

\* Mutant: every dispatch rewrites response_time.
DispatchAlways(p, t) ==
    [p EXCEPT !.response_time = t - p.arrival_time, !.started = TRUE]

\* sjf.c 153-156, rr.c 190-193: the first dispatch sets response_time.
Dispatch(p, t) ==
    IF ~p.started
    THEN [p EXCEPT !.response_time = t - p.arrival_time, !.started = TRUE]
    ELSE p

\* ---------------------------------------------------------------- FCFS

\* Mutant: the dispatch does not wait for the arrival.
FcfsStartNoWait(t, p) == t

\* fcfs.c 39-41: the clock at which processes[i] is dispatched.
FcfsStart(t, p) == IF t < p.arrival_time THEN p.arrival_time ELSE t

\* main.c 90-99 and fcfs.c 30-34: copy, call, sort, current_time = 0.
MainFcfs ==
    /\ pc = "fcfs" /\ Selected("fcfs")
    /\ fcfs_processes' = qsort(copy_processes(processes))
    /\ current_time' = 0 /\ i' = 0
    /\ gantt' = <<>>
    /\ pc' = "fcfs_loop"
    /\ UNCHANGED <<mainVars, sjf_processes, srtf_processes, rr_processes,
                   metricVars, completed, is_completed, ready_queue,
                   next_arrival_idx>>

SkipFcfs ==
    /\ pc = "fcfs" /\ ~Selected("fcfs")
    /\ pc' = "sjf"
    /\ UNCHANGED <<mainVars, copyVars, metricVars, localVars, gantt>>

\* fcfs.c 37-53: one iteration of the for loop.
FcfsIter ==
    /\ pc = "fcfs_loop" /\ i < n
    /\ LET p == fcfs_processes[i]
           start == FcfsStart(current_time, p)
           end == start + p.burst_time
       IN  /\ fcfs_processes' =
                 [fcfs_processes EXCEPT ![i] =
                     [p EXCEPT !.response_time = start - p.arrival_time,
                               !.started = TRUE,
                               !.completion_time = end,
                               !.remaining_time = 0]]
           /\ current_time' = end
           /\ gantt' = Record(IF start > current_time
                              THEN Record(gantt, Slice(NO_JOB, current_time, start))
                              ELSE gantt,
                              Slice(i, start, end))
    /\ i' = i + 1
    /\ UNCHANGED <<mainVars, pc, sjf_processes, srtf_processes, rr_processes,
                   metricVars, completed, is_completed, ready_queue,
                   next_arrival_idx>>

\* fcfs.c 56: calculate_metrics and return to main.
FcfsReturn ==
    /\ pc = "fcfs_loop" /\ ~(i < n)
    /\ fcfs_metrics' = MetricsOf(fcfs_processes, n)
    /\ fcfs_processes' = MetricsProcesses(fcfs_processes)
    /\ pc' = "fcfs_done"
    /\ UNCHANGED <<mainVars, sjf_processes, srtf_processes, rr_processes,
                   sjf_metrics, srtf_metrics, rr_metrics, localVars, gantt>>

\* main.c 100-101: print_processes, print_metrics.
PrintFcfs ==
    /\ pc = "fcfs_done"
    /\ pc' = "sjf"
    /\ UNCHANGED <<mainVars, copyVars, metricVars, localVars, gantt>>

\* ------------------------------------------------------- SJF and SRTF

\* Mutant: a candidate that only equals the best so far replaces it.
ShorterOrEqual(value, best) == value <= best

\* sjf.c 53-54 / 130-131: the test that replaces the best candidate so far.
Shorter(value, best) == value < best

\* sjf.c 52-58 / 129-135: the selection scan for (i = 0; i < n; i++), from
\* index k on, with the running shortest_job_idx and shortest value.  `key`
\* is "burst_time" (non-preemptive) or "remaining_time" (preemptive).
RECURSIVE ScanShortest(_, _, _, _, _, _, _)
ScanShortest(procs, done, t, key, k, idx, best) ==
    IF k >= n THEN idx
    ELSE IF ~done[k] /\ procs[k].arrival_time <= t /\ Shorter(procs[k][key], best)
         THEN ScanShortest(procs, done, t, key, k + 1, k, procs[k][key])
         ELSE ScanShortest(procs, done, t, key, k + 1, idx, best)

\* Mutant: the selection takes the earliest arrived, whatever the key.
ShortestJobIdxByArrival(procs, done, t, key) ==
    ScanShortest(procs, done, t, "arrival_time", 0, NO_JOB, INT_MAX)

\* Mutant: the selection compares burst_time whatever the key.
ShortestJobIdxByBurst(procs, done, t, key) ==
    ScanShortest(procs, done, t, "burst_time", 0, NO_JOB, INT_MAX)

\* Mutant: the selection does not skip the completed processes.
ShortestJobIdxIgnoringDone(procs, done, t, key) ==
    ScanShortest(procs, [k \in 0..n-1 |-> FALSE], t, key, 0, NO_JOB, INT_MAX)

\* Mutant: the selection does not look at the arrival times.
ShortestJobIdxAnyArrival(procs, done, t, key) ==
    ScanShortest(procs, done, INT_MAX, key, 0, NO_JOB, INT_MAX)

ShortestJobIdx(procs, done, t, key) ==
    ScanShortest(procs, done, t, key, 0, NO_JOB, INT_MAX)

\* sjf.c 62-67 / 139-144: the earliest arrival among the incomplete
\* processes, INT_MAX when there is none.
RECURSIVE ScanNextArrival(_, _, _, _)
ScanNextArrival(procs, done, k, best) ==
    IF k >= n THEN best
    ELSE IF ~done[k] /\ procs[k].arrival_time < best
         THEN ScanNextArrival(procs, done, k + 1, procs[k].arrival_time)
         ELSE ScanNextArrival(procs, done, k + 1, best)

\* Mutant: the next-arrival scan does not skip the completed processes.
NextArrivalTimeOfAll(procs, done) ==
    ScanNextArrival(procs, [k \in 0..n-1 |-> FALSE], 0, INT_MAX)

NextArrivalTime(procs, done) == ScanNextArrival(procs, done, 0, INT_MAX)

\* Mutant: the scheduler is handed the loaded array itself, and sorts it.
MainSjfInPlace ==
    /\ pc = "sjf" /\ Selected("sjf")
    /\ processes' = qsort(processes)
    /\ sjf_processes' = qsort(processes)
    /\ current_time' = 0 /\ completed' = 0
    /\ is_completed' = [k \in 0..n-1 |-> FALSE]
    /\ gantt' = <<>>
    /\ pc' = "sjf_loop"
    /\ UNCHANGED <<algorithm, time_quantum, n, qsort_order, fcfs_processes,
                   srtf_processes, rr_processes, metricVars, i, ready_queue,
                   next_arrival_idx>>

\* main.c 104-114 and sjf.c 32-38: copy, call, sort, calloc(is_completed).
MainSjf ==
    /\ pc = "sjf" /\ Selected("sjf")
    /\ sjf_processes' = qsort(copy_processes(processes))
    /\ current_time' = 0 /\ completed' = 0
    /\ is_completed' = [k \in 0..n-1 |-> FALSE]
    /\ gantt' = <<>>
    /\ pc' = "sjf_loop"
    /\ UNCHANGED <<mainVars, fcfs_processes, srtf_processes, rr_processes,
                   metricVars, i, ready_queue, next_arrival_idx>>

SkipSjf ==
    /\ pc = "sjf" /\ ~Selected("sjf")
    /\ pc' = "srtf"
    /\ UNCHANGED <<mainVars, copyVars, metricVars, localVars, gantt>>

\* sjf.c 60-70: no arrived incomplete process, jump to the next arrival.
SjfIdle ==
    /\ pc = "sjf_loop" /\ completed < n
    /\ ShortestJobIdx(sjf_processes, is_completed, current_time, "burst_time") = NO_JOB
    /\ current_time' = NextArrivalTime(sjf_processes, is_completed)
    /\ gantt' = Record(gantt, Slice(NO_JOB, current_time,
                                    NextArrivalTime(sjf_processes, is_completed)))
    /\ UNCHANGED <<mainVars, pc, copyVars, metricVars, completed, is_completed,
                   i, ready_queue, next_arrival_idx>>

\* sjf.c 72-88: run the selected process to completion.
SjfDispatch ==
    /\ pc = "sjf_loop" /\ completed < n
    /\ LET shortest_job_idx ==
               ShortestJobIdx(sjf_processes, is_completed, current_time, "burst_time")
           p == sjf_processes[shortest_job_idx]
           end == current_time + p.burst_time
       IN  /\ shortest_job_idx # NO_JOB
           /\ sjf_processes' =
                 [sjf_processes EXCEPT ![shortest_job_idx] =
                     [p EXCEPT !.response_time = current_time - p.arrival_time,
                               !.started = TRUE,
                               !.completion_time = end,
                               !.remaining_time = 0]]
           /\ current_time' = end
           /\ is_completed' = [is_completed EXCEPT ![shortest_job_idx] = TRUE]
           /\ gantt' = Record(gantt, Slice(shortest_job_idx, current_time, end))
    /\ completed' = completed + 1
    /\ UNCHANGED <<mainVars, pc, fcfs_processes, srtf_processes, rr_processes,
                   metricVars, i, ready_queue, next_arrival_idx>>

\* sjf.c 91-94: free(is_completed), calculate_metrics, return.
SjfReturn ==
    /\ pc = "sjf_loop" /\ ~(completed < n)
    /\ sjf_metrics' = MetricsOf(sjf_processes, n)
    /\ sjf_processes' = MetricsProcesses(sjf_processes)
    /\ pc' = "sjf_done"
    /\ UNCHANGED <<mainVars, fcfs_processes, srtf_processes, rr_processes,
                   fcfs_metrics, srtf_metrics, rr_metrics, localVars, gantt>>

\* main.c 115-116.
PrintSjf ==
    /\ pc = "sjf_done"
    /\ pc' = "srtf"
    /\ UNCHANGED <<mainVars, copyVars, metricVars, localVars, gantt>>

\* main.c 119-130 and sjf.c 109-115.
MainSrtf ==
    /\ pc = "srtf" /\ Selected("srtf")
    /\ srtf_processes' = qsort(copy_processes(processes))
    /\ current_time' = 0 /\ completed' = 0
    /\ is_completed' = [k \in 0..n-1 |-> FALSE]
    /\ gantt' = <<>>
    /\ pc' = "srtf_loop"
    /\ UNCHANGED <<mainVars, fcfs_processes, sjf_processes, rr_processes,
                   metricVars, i, ready_queue, next_arrival_idx>>

SkipSrtf ==
    /\ pc = "srtf" /\ ~Selected("srtf")
    /\ pc' = "rr"
    /\ UNCHANGED <<mainVars, copyVars, metricVars, localVars, gantt>>

\* sjf.c 137-147.
SrtfIdle ==
    /\ pc = "srtf_loop" /\ completed < n
    /\ ShortestJobIdx(srtf_processes, is_completed, current_time,
                      "remaining_time") = NO_JOB
    /\ current_time' = NextArrivalTime(srtf_processes, is_completed)
    /\ gantt' = Record(gantt, Slice(NO_JOB, current_time,
                                    NextArrivalTime(srtf_processes, is_completed)))
    /\ UNCHANGED <<mainVars, pc, copyVars, metricVars, completed, is_completed,
                   i, ready_queue, next_arrival_idx>>

\* sjf.c 149-167: run the selected process for one time unit.
SrtfTick ==
    /\ pc = "srtf_loop" /\ completed < n
    /\ LET shortest_job_idx ==
               ShortestJobIdx(srtf_processes, is_completed, current_time,
                              "remaining_time")
           p == srtf_processes[shortest_job_idx]
           dispatched == Dispatch(p, current_time)
           ran == [dispatched EXCEPT !.remaining_time = @ - 1]
           finished == ran.remaining_time = 0
       IN  /\ shortest_job_idx # NO_JOB
           /\ current_time' = current_time + 1
           /\ srtf_processes' =
                 [srtf_processes EXCEPT ![shortest_job_idx] =
                     IF finished
                     THEN [ran EXCEPT !.completion_time = current_time + 1]
                     ELSE ran]
           /\ is_completed' =
                 IF finished
                 THEN [is_completed EXCEPT ![shortest_job_idx] = TRUE]
                 ELSE is_completed
           /\ completed' = IF finished THEN completed + 1 ELSE completed
           /\ gantt' = Record(gantt,
                              Slice(shortest_job_idx, current_time, current_time + 1))
    /\ UNCHANGED <<mainVars, pc, fcfs_processes, sjf_processes, rr_processes,
                   metricVars, i, ready_queue, next_arrival_idx>>

\* sjf.c 173-176.
SrtfReturn ==
    /\ pc = "srtf_loop" /\ ~(completed < n)
    /\ srtf_metrics' = MetricsOf(srtf_processes, n)
    /\ srtf_processes' = MetricsProcesses(srtf_processes)
    /\ pc' = "srtf_done"
    /\ UNCHANGED <<mainVars, fcfs_processes, sjf_processes, rr_processes,
                   fcfs_metrics, sjf_metrics, rr_metrics, localVars, gantt>>

\* main.c 131-132.
PrintSrtf ==
    /\ pc = "srtf_done"
    /\ pc' = "rr"
    /\ UNCHANGED <<mainVars, copyVars, metricVars, localVars, gantt>>

\* --------------------------------------------------------- Round Robin

\* Mutant: the queue has room for one index whatever capacity is asked for.
create_queue_single_slot(capacity) ==
    [data |-> [slot \in {} |-> 0], capacity |-> 1, size |-> 0,
     front |-> 0, rear |-> -1]

\* rr.c 36-56: create_queue.  `data` is malloc'ed and holds no value yet:
\* it is the function from the slots written so far to their contents.
create_queue(capacity) ==
    [data |-> [slot \in {} |-> 0], capacity |-> capacity, size |-> 0,
     front |-> 0, rear |-> -1]

is_empty(queue) == queue.size = 0
is_full(queue) == queue.size = queue.capacity

\* rr.c 82-92: a full queue is left as it is (the callers ignore the result).
enqueue(queue, value) ==
    IF is_full(queue) THEN queue
    ELSE LET rear == (queue.rear + 1) % queue.capacity
         IN  [queue EXCEPT !.rear = rear,
                           !.data = (rear :> value) @@ queue.data,
                           !.size = queue.size + 1]

\* rr.c 100-110: the value handed back, and the queue left behind.
DequeuedValue(queue) == queue.data[queue.front]
dequeue(queue) ==
    [queue EXCEPT !.front = (queue.front + 1) % queue.capacity,
                  !.size = queue.size - 1]

\* The indices the queue holds, front first.
QueueContents(queue) ==
    [k \in 1..queue.size |-> queue.data[(queue.front + k - 1) % queue.capacity]]

\* Mutant: a process arriving exactly at t is not enqueued yet.
RECURSIVE EnqueueArrivalsStrict(_, _, _, _)
EnqueueArrivalsStrict(procs, queue, next, t) ==
    IF next < n /\ procs[next].arrival_time < t
    THEN EnqueueArrivalsStrict(procs, enqueue(queue, next), next + 1, t)
    ELSE [queue |-> queue, next |-> next]

\* rr.c 168-171 / 203-206: while (next_arrival_idx < n && arrival <= t).
RECURSIVE EnqueueArrivals(_, _, _, _)
EnqueueArrivals(procs, queue, next, t) ==
    IF next < n /\ procs[next].arrival_time <= t
    THEN EnqueueArrivals(procs, enqueue(queue, next), next + 1, t)
    ELSE [queue |-> queue, next |-> next]

\* Mutant: a slice runs the process to its end, whatever the quantum.
ExecutionTimeToCompletion(p, quantum) == p.remaining_time

\* Mutant: a slice always lasts the whole quantum.
ExecutionTimeWholeQuantum(p, quantum) == quantum

\* Mutant: a slice is one unit short of the quantum.
ExecutionTimeShort(p, quantum) ==
    IF p.remaining_time < quantum - 1 THEN p.remaining_time ELSE quantum - 1

\* rr.c 196.
ExecutionTime(p, quantum) ==
    IF p.remaining_time < quantum THEN p.remaining_time ELSE quantum

\* Mutant: the test of rr.c 209 is inverted.
RequeueInverted(queue, process_idx, remaining) ==
    IF remaining = 0 THEN enqueue(queue, process_idx) ELSE queue

\* Mutant: a preempted process is not put back.
RequeueNever(queue, process_idx, remaining) == queue

\* rr.c 209-215: what happens to the queue when the slice of process_idx ends.
Requeue(queue, process_idx, remaining) ==
    IF remaining = 0 THEN queue ELSE enqueue(queue, process_idx)

\* Mutant: the process that ran is put back before the arrivals are looked at.
AfterSliceRequeueFirst(procs, queue, next, t, process_idx, remaining) ==
    LET later == EnqueueArrivals(procs, Requeue(queue, process_idx, remaining),
                                 next, t)
    IN  [queue |-> later.queue, next |-> later.next]

\* rr.c 202-215: the end of a slice at clock value t: first the arrivals up
\* to t, then the process that ran, if it has time left.
AfterSlice(procs, queue, next, t, process_idx, remaining) ==
    LET later == EnqueueArrivals(procs, queue, next, t)
    IN  [queue |-> Requeue(later.queue, process_idx, remaining),
         next |-> later.next]

\* main.c 135-147 and rr.c 136-163.  arrival_index is written and never read.
MainRr ==
    /\ pc = "rr" /\ Selected("rr")
    /\ rr_processes' = qsort(copy_processes(processes))
    /\ ready_queue' = create_queue(n * QueueFactor)
    /\ current_time' = 0 /\ completed' = 0 /\ next_arrival_idx' = 0
    /\ gantt' = <<>>
    /\ pc' = "rr_loop"
    /\ UNCHANGED <<mainVars, fcfs_processes, sjf_processes, srtf_processes,
                   metricVars, is_completed, i>>

SkipRr ==
    /\ pc = "rr" /\ ~Selected("rr")
    /\ pc' = "exit"
    /\ UNCHANGED <<mainVars, copyVars, metricVars, localVars, gantt>>

\* Mutant: the iteration does not look for arrivals at its top.
ArrivedNotChecked == [queue |-> ready_queue, next |-> next_arrival_idx]

\* The state after the arrivals loop at the top of an iteration (168-171).
Arrived == EnqueueArrivals(rr_processes, ready_queue, next_arrival_idx, current_time)

\* rr.c 180: the break branch.
RrBreaks == is_empty(Arrived.queue) /\ ~(Arrived.next < n)

\* rr.c 166-177: queue empty and arrivals left, jump to the next arrival.
RrIdle ==
    /\ pc = "rr_loop" /\ completed < n
    /\ is_empty(Arrived.queue) /\ Arrived.next < n
    /\ current_time' = rr_processes[Arrived.next].arrival_time
    /\ ready_queue' = Arrived.queue
    /\ next_arrival_idx' = Arrived.next
    /\ gantt' = Record(gantt, Slice(NO_JOB, current_time,
                                    rr_processes[Arrived.next].arrival_time))
    /\ UNCHANGED <<mainVars, pc, copyVars, metricVars, completed, is_completed, i>>

\* rr.c 166-215: one slice of the process at the front of the queue.
RrSlice ==
    /\ pc = "rr_loop" /\ completed < n
    /\ ~is_empty(Arrived.queue)
    /\ LET process_idx == DequeuedValue(Arrived.queue)
           p == rr_processes[process_idx]
           dispatched == Dispatch(p, current_time)
           execution_time == ExecutionTime(dispatched, time_quantum)
           ran == [dispatched EXCEPT !.remaining_time = @ - execution_time]
           end == current_time + execution_time
           later == AfterSlice(rr_processes, dequeue(Arrived.queue), Arrived.next,
                               end, process_idx, ran.remaining_time)
       IN  /\ current_time' = end
           /\ rr_processes' =
                 [rr_processes EXCEPT ![process_idx] =
                     IF ran.remaining_time = 0
                     THEN [ran EXCEPT !.completion_time = end]
                     ELSE ran]
           /\ completed' = IF ran.remaining_time = 0 THEN completed + 1 ELSE completed
           /\ ready_queue' = later.queue
           /\ next_arrival_idx' = later.next
           /\ gantt' = Record(gantt, Slice(process_idx, current_time, end))
    /\ UNCHANGED <<mainVars, pc, fcfs_processes, sjf_processes, srtf_processes,
                   metricVars, is_completed, i>>

\* rr.c 166, 180, 218-222: the loop ends (completed == n, or the break),
\* free_queue, calculate_metrics, return.
RrReturn ==
    /\ pc = "rr_loop"
    /\ IF completed < n THEN RrBreaks ELSE TRUE
    /\ rr_metrics' = MetricsOf(rr_processes, n)
    /\ rr_processes' = MetricsProcesses(rr_processes)
    /\ ready_queue' = NULL
    /\ pc' = "rr_done"
    /\ UNCHANGED <<mainVars, fcfs_processes, sjf_processes, srtf_processes,
                   fcfs_metrics, sjf_metrics, srtf_metrics, current_time,
                   completed, is_completed, i, next_arrival_idx, gantt>>

\* main.c 148-149.
PrintRr ==
    /\ pc = "rr_done"
    /\ pc' = "exit"
    /\ UNCHANGED <<mainVars, copyVars, metricVars, localVars, gantt>>

Next ==
    \/ MainFcfs \/ SkipFcfs \/ FcfsIter \/ FcfsReturn \/ PrintFcfs
    \/ MainSjf \/ SkipSjf \/ SjfIdle \/ SjfDispatch \/ SjfReturn \/ PrintSjf
    \/ MainSrtf \/ SkipSrtf \/ SrtfIdle \/ SrtfTick \/ SrtfReturn \/ PrintSrtf
    \/ MainRr \/ SkipRr \/ RrIdle \/ RrSlice \/ RrReturn \/ PrintRr

Spec == Init /\ [][Next]_vars

\* The loops run on: a scheduler call, once made, keeps executing.
FairSpec == Spec /\ WF_vars(Next)

\* ------------------------------------------------- allocation failures

\* Metrics empty = {0}.
EmptyMetrics ==
    [avg_turnaround_time |-> FloatDiv(0, 1), avg_waiting_time |-> FloatDiv(0, 1),
     avg_response_time |-> FloatDiv(0, 1)]

\* main.c 91-96: copy_processes returns NULL, main returns EXIT_FAILURE.
FcfsCopyFails ==
    /\ pc = "fcfs" /\ Selected("fcfs")
    /\ pc' = "exit_failure"
    /\ UNCHANGED <<mainVars, copyVars, metricVars, localVars, gantt>>

\* main.c 105-111.
SjfCopyFails ==
    /\ pc = "sjf" /\ Selected("sjf")
    /\ pc' = "exit_failure"
    /\ UNCHANGED <<mainVars, copyVars, metricVars, localVars, gantt>>

\* main.c 120-127.
SrtfCopyFails ==
    /\ pc = "srtf" /\ Selected("srtf")
    /\ pc' = "exit_failure"
    /\ UNCHANGED <<mainVars, copyVars, metricVars, localVars, gantt>>

\* main.c 136-144.
RrCopyFails ==
    /\ pc = "rr" /\ Selected("rr")
    /\ pc' = "exit_failure"
    /\ UNCHANGED <<mainVars, copyVars, metricVars, localVars, gantt>>

\* sjf.c 32-44: the copy is sorted, calloc(is_completed) returns NULL, the
\* call returns the empty Metrics; main.c 114 takes it as the result.
SjfAllocFails ==
    /\ pc = "sjf" /\ Selected("sjf")
    /\ sjf_processes' = qsort(copy_processes(processes))
    /\ current_time' = 0 /\ completed' = 0
    /\ is_completed' = NULL
    /\ gantt' = <<>>
    /\ sjf_metrics' = EmptyMetrics
    /\ pc' = "sjf_done"
    /\ UNCHANGED <<mainVars, fcfs_processes, srtf_processes, rr_processes,
                   fcfs_metrics, srtf_metrics, rr_metrics, i, ready_queue,
                   next_arrival_idx>>

\* sjf.c 109-121 and main.c 130.
SrtfAllocFails ==
    /\ pc = "srtf" /\ Selected("srtf")
    /\ srtf_processes' = qsort(copy_processes(processes))
    /\ current_time' = 0 /\ completed' = 0
    /\ is_completed' = NULL
    /\ gantt' = <<>>
    /\ srtf_metrics' = EmptyMetrics
    /\ pc' = "srtf_done"
    /\ UNCHANGED <<mainVars, fcfs_processes, sjf_processes, rr_processes,
                   fcfs_metrics, sjf_metrics, rr_metrics, i, ready_queue,
                   next_arrival_idx>>

\* rr.c 136-145 (create_queue: 37-49) and main.c 147: the copy is sorted,
\* create_queue returns NULL.
RrQueueAllocFails ==
    /\ pc = "rr" /\ Selected("rr")
    /\ rr_processes' = qsort(copy_processes(processes))
    /\ ready_queue' = NULL
    /\ gantt' = <<>>
    /\ rr_metrics' = EmptyMetrics
    /\ pc' = "rr_done"
    /\ UNCHANGED <<mainVars, fcfs_processes, sjf_processes, srtf_processes,
                   fcfs_metrics, sjf_metrics, srtf_metrics, current_time,
                   completed, is_completed, i, next_arrival_idx>>

\* rr.c 136-156: the queue is there, calloc(arrival_index) returns NULL,
\* the queue is freed.
RrIndexAllocFails ==
    /\ pc = "rr" /\ Selected("rr")
    /\ rr_processes' = qsort(copy_processes(processes))
    /\ ready_queue' = NULL
    /\ current_time' = 0 /\ completed' = 0
    /\ gantt' = <<>>
    /\ rr_metrics' = EmptyMetrics
    /\ pc' = "rr_done"
    /\ UNCHANGED <<mainVars, fcfs_processes, sjf_processes, srtf_processes,
                   fcfs_metrics, sjf_metrics, srtf_metrics, is_completed, i,
                   next_arrival_idx>>

AllocNext ==
    \/ Next
    \/ FcfsCopyFails \/ SjfCopyFails \/ SrtfCopyFails \/ RrCopyFails
    \/ SjfAllocFails \/ SrtfAllocFails
    \/ RrQueueAllocFails \/ RrIndexAllocFails

\* The program when any malloc or calloc may return NULL.
AllocSpec == Init /\ [][AllocNext]_vars

\* --------------------------------------------- rr_schedule, any quantum

\* A caller of rr_schedule (rr.h) that, unlike main.c 56-62, has not looked
\* at time_quantum: any int within the bounds, positive or not.
CallInit ==
    /\ algorithm = "rr"
    /\ time_quantum \in (0 - MaxQuantum)..MaxQuantum
    /\ processes \in ProcessSets
    /\ n = Cardinality(DOMAIN processes)
    /\ qsort_order \in SortedOrders(processes, Cardinality(DOMAIN processes))
    /\ pc = "rr"
    /\ fcfs_processes = NULL /\ sjf_processes = NULL
    /\ srtf_processes = NULL /\ rr_processes = NULL
    /\ fcfs_metrics = NULL /\ sjf_metrics = NULL
    /\ srtf_metrics = NULL /\ rr_metrics = NULL
    /\ current_time = 0 /\ completed = 0 /\ is_completed = <<>> /\ i = 0
    /\ ready_queue = NULL /\ next_arrival_idx = 0
    /\ gantt = <<>>

\* RrSlice, followed while the clock, which a negative quantum winds back,
\* is within GanttCap of 0.
RrCallSlice ==
    /\ current_time + GanttCap >= 0
    /\ RrSlice

CallNext == MainRr \/ RrIdle \/ RrCallSlice \/ RrReturn \/ PrintRr

CallSpec == CallInit /\ [][CallNext]_vars

\* ============================================================== claims

Indices == 0..n-1

\* A scheduler has returned to main and its copy has not been touched since.
Returned == pc \in {"fcfs_done", "sjf_done", "srtf_done", "rr_done"}

\* The array the scheduler that has just returned worked on.
Result ==
    CASE pc = "fcfs_done" -> fcfs_processes
      [] pc = "sjf_done" -> sjf_processes
      [] pc = "srtf_done" -> srtf_processes
      [] pc = "rr_done" -> rr_processes

\* The time the history gives to `who` (a process index, or NO_JOB) in its
\* first j entries.
RECURSIVE SliceTime(_, _, _)
SliceTime(history, who, j) ==
    IF j = 0 THEN 0
    ELSE (IF history[j].idx = who THEN history[j].to - history[j].from ELSE 0)
         + SliceTime(history, who, j - 1)

TotalBurst == SumOver(processes, "burst_time", n)

\* C1: when any of the four schedulers returns, every process has
\* remaining_time = 0 and completion_time >= arrival_time.
C1_AllFinished ==
    Returned =>
        \A k \in Indices :
            /\ Result[k].remaining_time = 0
            /\ Result[k].completion_time >= Result[k].arrival_time

\* Round Robin has returned, last of the four schedulers, from a run with a
\* preemption and an idle jump.
C1_Witness ==
    /\ pc = "rr_done" /\ algorithm = "all" /\ n = MaxN
    /\ Len(gantt) > n
    /\ \E j \in 1..Len(gantt) : gantt[j].idx = NO_JOB
    /\ \A k \in Indices : rr_processes[k].remaining_time = 0

\* C2: when any scheduler returns, 0 <= response_time <= waiting_time for
\* every process (waiting_time as calculate_metrics set it): no process keeps
\* the sentinel -1.
C2_ResponseWithinWaiting ==
    Returned =>
        \A k \in Indices :
            /\ 0 <= Result[k].response_time
            /\ Result[k].response_time <= Result[k].waiting_time
            /\ Result[k].waiting_time =
                   Result[k].completion_time - Result[k].arrival_time
                   - Result[k].burst_time

\* A preemptive scheduler has returned with a process that waited again after
\* its first dispatch, and one that was dispatched on arrival.
C2_Witness ==
    /\ pc \in {"srtf_done", "rr_done"}
    /\ \E k \in Indices : Result[k].response_time < Result[k].waiting_time
    /\ \E k \in Indices : Result[k].response_time = 0
    /\ \E k \in Indices : Result[k].response_time > 0

\* C3: when FCFS or SJF non-preemptive returns, response_time = waiting_time
\* for every process, i.e. completion = arrival + response + burst.
C3_NonPreemptiveResponseIsWaiting ==
    pc \in {"fcfs_done", "sjf_done"} =>
        \A k \in Indices :
            /\ Result[k].response_time = Result[k].waiting_time
            /\ Result[k].completion_time =
                   Result[k].arrival_time + Result[k].response_time
                   + Result[k].burst_time

\* SJF has returned after running a later, shorter process before an earlier
\* one that had to wait.
C3_Witness ==
    /\ pc = "sjf_done"
    /\ \E a, b \in Indices :
          /\ a < b
          /\ sjf_processes[b].completion_time < sjf_processes[a].completion_time
          /\ sjf_processes[a].waiting_time > 0

\* C4: when any scheduler returns, the timeline starts at 0, its entries
\* follow one another without gap or overlap up to the final clock, each has
\* positive length, each process was executed for exactly burst_time units,
\* and the final clock is the sum of the bursts plus the idle time.
C4_BusyTimeIsTotalBurst ==
    Returned =>
        /\ Len(gantt) >= n
        /\ gantt[1].from = 0
        /\ gantt[Len(gantt)].to = current_time
        /\ \A j \in 1..Len(gantt) : gantt[j].from < gantt[j].to
        /\ \A j \in 1..Len(gantt)-1 : gantt[j].to = gantt[j + 1].from
        /\ \A j \in 1..Len(gantt) : gantt[j].idx \in Indices \cup {NO_JOB}
        /\ \A k \in Indices :
              SliceTime(gantt, k, Len(gantt)) = Result[k].burst_time
        /\ current_time = TotalBurst + SliceTime(gantt, NO_JOB, Len(gantt))

\* A scheduler has returned from a timeline with an idle jump between two
\* executed slices and a process that ran in more than one slice.
C4_Witness ==
    /\ Returned
    /\ \E j \in 2..Len(gantt)-1 : gantt[j].idx = NO_JOB
    /\ \E a, b \in 1..Len(gantt) :
          a < b /\ gantt[a].idx = gantt[b].idx /\ gantt[a].idx # NO_JOB

\* C5: when Round Robin returns from a run whose quantum is at least every
\* burst_time, each process has the completion_time FCFS gave it on its copy
\* of the same set.
C5_LargeQuantumIsFcfs ==
    (/\ pc = "rr_done" /\ fcfs_processes # NULL
     /\ \A k \in Indices : processes[k].burst_time <= time_quantum)
    => \A a, b \in Indices :
          fcfs_processes[a].id = rr_processes[b].id
          => fcfs_processes[a].completion_time = rr_processes[b].completion_time

\* Both have run with a quantum above 1 that some burst equals, and a process
\* had to wait for the one before it.
C5_Witness ==
    /\ pc = "rr_done" /\ fcfs_processes # NULL /\ n > 1
    /\ \A k \in Indices : processes[k].burst_time <= time_quantum
    /\ \E k \in Indices : processes[k].burst_time = time_quantum
    /\ time_quantum > 1
    /\ \E k \in Indices : rr_processes[k].response_time > 0

\* The entries of the timeline in which process k runs.
RunsOf(k) == {j \in 1..Len(gantt) : gantt[j].idx = k}

\* C6: in Round Robin, (a) right after a slice that ends at t with time left,
\* the process that ran is at the tail of the ready queue and every other
\* unfinished process with arrival_time <= t is in the queue ahead of it;
\* (b) between two successive slices of a process, every process that arrived
\* during the first of them, up to and including its end, has a slice.
C6_ArrivalsAheadOfPreempted ==
    /\ (/\ pc = "rr_loop" /\ Len(gantt) > 0
        /\ gantt[Len(gantt)].idx # NO_JOB
        /\ rr_processes[gantt[Len(gantt)].idx].remaining_time > 0)
       => LET last == gantt[Len(gantt)]
              waiting == QueueContents(ready_queue)
          IN  /\ Len(waiting) > 0
              /\ waiting[Len(waiting)] = last.idx
              /\ \A k \in Indices \ {last.idx} :
                    (/\ rr_processes[k].arrival_time <= last.to
                     /\ rr_processes[k].remaining_time > 0)
                    => \E j \in 1..Len(waiting)-1 : waiting[j] = k
    /\ pc \in {"rr_loop", "rr_done"}
       => \A a, b \in 1..Len(gantt) :
             (/\ a < b /\ gantt[a].idx # NO_JOB /\ gantt[a].idx = gantt[b].idx
              /\ \A c \in a+1..b-1 : gantt[c].idx # gantt[a].idx)
             => \A k \in Indices \ {gantt[a].idx} :
                   (/\ gantt[a].from < rr_processes[k].arrival_time
                    /\ rr_processes[k].arrival_time <= gantt[a].to)
                   => \E c \in a+1..b-1 : gantt[c].idx = k

\* A process was preempted at the very instant another one arrived, the
\* arrival ran next, and the preempted process ran again after it.
C6_Witness ==
    /\ pc = "rr_loop"
    /\ \E a, b \in 1..Len(gantt) :
          /\ a < b /\ gantt[a].idx # NO_JOB /\ gantt[a].idx = gantt[b].idx
          /\ \E c \in a+1..b-1 :
                /\ gantt[c].idx \notin {NO_JOB, gantt[a].idx}
                /\ rr_processes[gantt[c].idx].arrival_time = gantt[a].to

\* Every process of a copy is completed.
Completed(copy) == \A k \in Indices : copy[k].remaining_time = 0

\* main has run every selected scheduler, each returned with all its
\* processes completed.
Terminated ==
    /\ pc = "exit"
    /\ Selected("fcfs") => fcfs_metrics # NULL /\ Completed(fcfs_processes)
    /\ Selected("sjf") => sjf_metrics # NULL /\ Completed(sjf_processes)
    /\ Selected("srtf") => srtf_metrics # NULL /\ Completed(srtf_processes)
    /\ Selected("rr") => rr_metrics # NULL /\ Completed(rr_processes)

\* C7: every scheduler terminates: each run of the driver reaches its end
\* with every selected scheduler returned and all its processes completed.
C7_Terminates == <>Terminated

\* All four schedulers have returned in one run, each after an idle jump.
C7_Witness ==
    /\ Terminated /\ algorithm = "all" /\ n = MaxN
    /\ \E k \in Indices : rr_processes[k].arrival_time > 0
    /\ \E j \in 2..Len(gantt) : gantt[j].idx = NO_JOB

\* The metrics the scheduler that has just returned handed to main.
ResultMetrics ==
    CASE pc = "fcfs_done" -> fcfs_metrics
      [] pc = "sjf_done" -> sjf_metrics
      [] pc = "srtf_done" -> srtf_metrics
      [] pc = "rr_done" -> rr_metrics

\* C8: when a scheduler returns, n >= 1, every process has turnaround_time =
\* completion_time - arrival_time and waiting_time = turnaround_time -
\* burst_time, so sum(turnaround) = sum(waiting) + sum(burst) and
\* sum(turnaround) >= sum(waiting) >= 0; the averages handed back are these
\* sums divided by n, with average turnaround >= average waiting >= 0.
C8_MetricsIdentity ==
    Returned =>
        /\ \A k \in Indices :
              /\ Result[k].turnaround_time =
                     Result[k].completion_time - Result[k].arrival_time
              /\ Result[k].waiting_time =
                     Result[k].turnaround_time - Result[k].burst_time
        /\ n >= 1
        /\ SumOver(Result, "turnaround_time", n) =
               SumOver(Result, "waiting_time", n) + SumOver(Result, "burst_time", n)
        /\ SumOver(Result, "turnaround_time", n) >= SumOver(Result, "waiting_time", n)
        /\ SumOver(Result, "waiting_time", n) >= 0
        /\ ResultMetrics.avg_turnaround_time =
               FloatDiv(SumOver(Result, "turnaround_time", n), n)
        /\ ResultMetrics.avg_waiting_time =
               FloatDiv(SumOver(Result, "waiting_time", n), n)
        /\ FloatLeq(ResultMetrics.avg_waiting_time, ResultMetrics.avg_turnaround_time)
        /\ FloatLeq(FloatDiv(0, n), ResultMetrics.avg_waiting_time)
        /\ ResultMetrics.avg_waiting_time.sign >= 0

\* Metrics of a run in which some process waited and no process arrived at
\* time 0, the average waiting time not a whole number.
C8_Witness ==
    /\ Returned /\ n > 1
    /\ SumOver(Result, "waiting_time", n) % n # 0
    /\ \A k \in Indices : Result[k].arrival_time > 0
    /\ ResultMetrics.avg_turnaround_time # ResultMetrics.avg_waiting_time

\* C9: on the scenario P1(0,5), P2(1,3), P3(2,8), FCFS and SJF non-preemptive
\* both give completion times 5, 8, 16 and waiting times 0, 4, 6.
C9_ScenarioFcfsSjf ==
    (processes = Scenario /\ pc \in {"fcfs_done", "sjf_done"}) =>
        \A k \in Indices :
            \E r \in Indices :
                /\ Result[r].id = processes[k].id
                /\ Result[r].completion_time = <<5, 8, 16>>[k + 1]
                /\ Result[r].waiting_time = <<0, 4, 6>>[k + 1]

\* SJF has returned on the scenario in a run in which FCFS returned before.
C9_Witness ==
    /\ processes = Scenario /\ pc = "sjf_done" /\ fcfs_metrics # NULL
    /\ Len(gantt) = 3

\* The process SRTF runs during [t, t+1) on the scenario, by index.
ScenarioSrtfOwner(t) ==
    IF t < 1 THEN 0 ELSE IF t < 4 THEN 1 ELSE IF t < 8 THEN 0 ELSE 2

\* C10: on the scenario, SRTF runs P1 during [0,1), P2 during [1,4), P1
\* during [4,8) and P3 during [8,16): P2 completes at 4, P1 at 8, P3 at 16.
C10_ScenarioSrtf ==
    (processes = Scenario /\ pc = "srtf_done") =>
        /\ Len(gantt) = 16
        /\ \A j \in 1..Len(gantt) :
              gantt[j] = Slice(ScenarioSrtfOwner(j - 1), j - 1, j)
        /\ \A k \in Indices : srtf_processes[k].id = k + 1
        /\ srtf_processes[0].completion_time = 8
        /\ srtf_processes[1].completion_time = 4
        /\ srtf_processes[2].completion_time = 16

\* SRTF has returned on the scenario with P1 dispatched on arrival and
\* finished after P2.
C10_Witness ==
    /\ processes = Scenario /\ pc = "srtf_done"
    /\ srtf_processes[0].response_time = 0
    /\ srtf_processes[0].waiting_time = 3

\* The fields a scheduler writes are as read_processes left them.
Untouched(p) ==
    /\ p.remaining_time = p.burst_time /\ p.response_time = -1
    /\ ~p.started /\ p.completion_time = 0

\* C11: a call of rr_schedule with time_quantum <= 0 dispatches no process:
\* it changes no process's remaining_time, response_time, started or
\* completion_time.
C11_NonPositiveQuantumRejected ==
    time_quantum <= 0 /\ rr_processes # NULL =>
        \A k \in Indices : Untouched(rr_processes[k])

\* C12: a scheduler that has handed main a result (main prints it and goes
\* on to return EXIT_SUCCESS) has assigned every completion time: none
\* returns after an allocation failure with a copy that is sorted and
\* otherwise as loaded.
C12_AllocationFailureSurfaced ==
    /\ sjf_metrics # NULL => Completed(sjf_processes)
    /\ srtf_metrics # NULL => Completed(srtf_processes)
    /\ rr_metrics # NULL => Completed(rr_processes)

\* C13: in every step of every scheduler a process's remaining_time starts
\* at its burst_time, does not grow, is not negative, and is 0 in the step
\* that assigns its completion_time.
C13_RemainingTimeDecreasesToZero ==
    [][\A c \in 1..4 :
          copyVars'[c] # NULL =>
              \A k \in Indices :
                  LET new == copyVars'[c][k]
                  IN  /\ new.remaining_time >= 0
                      /\ IF copyVars[c] = NULL
                         THEN new.remaining_time = new.burst_time
                         ELSE LET old == copyVars[c][k]
                              IN  /\ new.remaining_time <= old.remaining_time
                                  /\ new.completion_time # old.completion_time
                                         => new.remaining_time = 0]_vars

\* Round Robin in mid-run: one process completed over several slices,
\* another one part-way through its burst.
C13_Witness ==
    /\ pc = "rr_loop"
    /\ \E k, j \in Indices :
          /\ rr_processes[k].remaining_time = 0
          /\ rr_processes[k].completion_time > 0
          /\ Cardinality(RunsOf(k)) > 1
          /\ 0 < rr_processes[j].remaining_time
          /\ rr_processes[j].remaining_time < rr_processes[j].burst_time

\* The step appends an executed slice of process k to the history.
DispatchedInStep(k) ==
    /\ gantt' # gantt /\ gantt' # <<>>
    /\ gantt'[Len(gantt')].idx = k

Running ==
    CASE pc = "fcfs_loop" -> 1
      [] pc = "sjf_loop" -> 2
      [] pc = "srtf_loop" -> 3
      [] pc = "rr_loop" -> 4
      [] OTHER -> 0

\* C15: completion_time is 0 while the process has time left, is written in
\* the step that brings remaining_time to 0 with the clock at the end of
\* that step, and never changes afterwards; a completed process is not
\* dispatched again.
C15_CompletionTimeWrittenOnce ==
    [][\A c \in 1..4 :
          copyVars'[c] # NULL =>
              \A k \in Indices :
                  LET new == copyVars'[c][k]
                  IN  /\ new.remaining_time > 0 => new.completion_time = 0
                      /\ copyVars[c] = NULL => new.completion_time = 0
                      /\ copyVars[c] # NULL =>
                            LET old == copyVars[c][k]
                            IN  /\ old.remaining_time > 0 /\ new.remaining_time = 0
                                      => new.completion_time = current_time'
                                /\ old.remaining_time = 0 =>
                                      /\ new.remaining_time = 0
                                      /\ new.completion_time = old.completion_time
                                      /\ ~(c = Running /\ DispatchedInStep(k))]_vars

\* Round Robin goes on after a process has completed: the completion time is
\* the end of that process's last slice, and later slices are other
\* processes'.
C15_Witness ==
    /\ pc = "rr_loop"
    /\ \E k \in Indices :
          /\ rr_processes[k].remaining_time = 0
          /\ RunsOf(k) # {}
          /\ LET last == CHOOSE j \in RunsOf(k) : \A l \in RunsOf(k) : l <= j
             IN  /\ rr_processes[k].completion_time = gantt[last].to
                 /\ last < Len(gantt)

\* C16: no step of the driver or of a scheduler changes the loaded array (it
\* keeps its order and the fields read_processes gave it), and every
\* scheduler starts from a sorted copy of exactly that array.
C16_PrivateCopies ==
    [][/\ processes' = processes
       /\ \A k \in Indices : processes[k].id = k + 1 /\ Untouched(processes[k])
       /\ \A c \in 1..4 :
             copyVars[c] = NULL /\ copyVars'[c] # NULL =>
                 /\ copyVars'[c] = qsort(copy_processes(processes))
                 /\ \A d \in 1..4 : d # c => copyVars'[d] = copyVars[d]]_vars

\* All four algorithms have run, on an input the sort reorders; the loaded
\* array is as it was and each copy holds its own completion times.
C16_Witness ==
    /\ algorithm = "all" /\ pc = "exit"
    /\ \E k \in Indices : qsort_order[k] # k
    /\ \A k \in Indices : Untouched(processes[k])
    /\ Completed(fcfs_processes) /\ Completed(sjf_processes)
    /\ Completed(srtf_processes) /\ Completed(rr_processes)
    /\ \E k \in Indices :
          sjf_processes[k].completion_time # rr_processes[k].completion_time

\* The remaining_time of all processes of a copy, summed.
TotalRemaining(copy) == SumOver(copy, "remaining_time", n)

\* A step that is one iteration of the running scheduler's main loop.
LoopIteration == Running # 0 /\ pc' = pc

\* C17 as stated: every loop iteration strictly reduces the total
\* remaining_time of the set.
C17_EveryIterationReducesRemaining ==
    [][LoopIteration =>
          TotalRemaining(copyVars'[Running]) < TotalRemaining(copyVars[Running])]_vars

\* C17: a loop iteration either executes a process and strictly reduces the
\* total remaining_time, or it is an idle jump: it changes no process and
\* moves the clock strictly forward to the arrival time of a process that
\* has not started, so that the next iteration executes.
C17_IterationReducesOrJumps ==
    [][LoopIteration =>
          LET old == copyVars[Running]
              new == copyVars'[Running]
          IN  \/ TotalRemaining(new) < TotalRemaining(old)
              \/ /\ new = old
                 /\ current_time' > current_time
                 /\ \E k \in Indices :
                       /\ new[k].arrival_time = current_time'
                       /\ ~new[k].started /\ new[k].remaining_time > 0]_vars

\* An idle jump in mid-run: the last iteration of SJF, SRTF or Round Robin
\* executed nothing, after an earlier one had.
C17_Witness ==
    /\ pc \in {"sjf_loop", "srtf_loop", "rr_loop"}
    /\ Len(gantt) > 1
    /\ gantt[Len(gantt)].idx = NO_JOB
    /\ gantt[Len(gantt)].to = current_time
    /\ TotalRemaining(copyVars[Running]) > 0

\* Process k of `copy` has arrived by t and is not complete.
Ready(copy, k, t) == copy[k].arrival_time <= t /\ copy[k].remaining_time > 0

\* C18: a dispatch of SJF at clock t takes a ready process whose burst_time
\* no ready process undercuts, the lowest-indexed (so not the later arrived)
\* among those of equal burst_time, and runs it for its whole burst_time
\* within the step.
C18_SjfPicksShortestBurst ==
    [][pc = "sjf_loop" /\ sjf_processes' # sjf_processes /\ pc' = pc =>
          LET chosen == gantt'[Len(gantt')].idx
              p == sjf_processes[chosen]
          IN  /\ chosen \in Indices
              /\ Ready(sjf_processes, chosen, current_time)
              /\ \A k \in Indices :
                    Ready(sjf_processes, k, current_time) =>
                        \/ p.burst_time < sjf_processes[k].burst_time
                        \/ /\ p.burst_time = sjf_processes[k].burst_time
                           /\ chosen <= k
                           /\ p.arrival_time <= sjf_processes[k].arrival_time
              /\ gantt' = Append(gantt, Slice(chosen, current_time,
                                              current_time + p.burst_time))
              /\ current_time' = current_time + p.burst_time
              /\ sjf_processes'[chosen].remaining_time = 0
              /\ \A k \in Indices :
                    k # chosen => sjf_processes'[k] = sjf_processes[k]]_vars

\* SJF has just run a process while another one of equal burst_time and a
\* higher index was ready.
C18_Witness ==
    /\ pc = "sjf_loop" /\ gantt # <<>>
    /\ LET e == gantt[Len(gantt)]
       IN  /\ e.idx # NO_JOB
           /\ \E k \in Indices :
                 /\ k > e.idx
                 /\ Ready(sjf_processes, k, e.from)
                 /\ sjf_processes[k].burst_time = sjf_processes[e.idx].burst_time

\* The process of the last executed slice that is still ready at the clock,
\* NO_JOB if the history is empty, ends idle, or that process has completed.
StillRunning(copy) ==
    IF gantt # <<>> /\ gantt[Len(gantt)].idx # NO_JOB
       /\ gantt[Len(gantt)].to = current_time
       /\ copy[gantt[Len(gantt)].idx].remaining_time > 0
    THEN gantt[Len(gantt)].idx
    ELSE NO_JOB

\* C19: an executed unit [t, t+1) of SRTF belongs to a ready process whose
\* remaining_time no ready process undercuts, the lowest-indexed of those
\* with equal remaining_time.  So the process that ran the unit before is
\* displaced only by one with strictly less remaining time, or equal
\* remaining time and a lower index, and it is displaced whenever a process
\* arriving at t has strictly less remaining time (the arrival itself takes
\* the unit if it is the only such arrival).
C19_SrtfRunsShortestRemaining ==
    [][pc = "srtf_loop" /\ srtf_processes' # srtf_processes /\ pc' = pc =>
          LET chosen == gantt'[Len(gantt')].idx
              p == srtf_processes[chosen]
              before == StillRunning(srtf_processes)
              arrivals == {k \in Indices :
                              /\ before # NO_JOB
                              /\ srtf_processes[k].arrival_time = current_time
                              /\ srtf_processes[k].remaining_time
                                     < srtf_processes[before].remaining_time}
          IN  /\ chosen \in Indices
              /\ Ready(srtf_processes, chosen, current_time)
              /\ \A k \in Indices :
                    Ready(srtf_processes, k, current_time) =>
                        \/ p.remaining_time < srtf_processes[k].remaining_time
                        \/ /\ p.remaining_time = srtf_processes[k].remaining_time
                           /\ chosen <= k
              /\ gantt' = Append(gantt, Slice(chosen, current_time, current_time + 1))
              /\ current_time' = current_time + 1
              /\ srtf_processes'[chosen].remaining_time = p.remaining_time - 1
              /\ before # NO_JOB /\ chosen # before =>
                    \/ p.remaining_time < srtf_processes[before].remaining_time
                    \/ /\ p.remaining_time = srtf_processes[before].remaining_time
                       /\ chosen < before
              /\ arrivals # {} => chosen \in arrivals
              /\ \A k \in arrivals : arrivals = {k} => chosen = k]_vars

\* A preemption: the last unit went to a process that arrived at its start,
\* while the process of the unit before still has more time left.
C19_Witness ==
    /\ pc = "srtf_loop" /\ Len(gantt) > 1
    /\ LET e == gantt[Len(gantt)]
           b == gantt[Len(gantt) - 1]
       IN  /\ e.idx # NO_JOB /\ b.idx # NO_JOB /\ e.idx # b.idx
           /\ srtf_processes[e.idx].arrival_time = e.from
           /\ srtf_processes[b.idx].remaining_time
                  > srtf_processes[e.idx].remaining_time + 1

\* The copy of the scheduler that is in its loop or has just returned.
Current ==
    IF Running # 0 THEN copyVars[Running]
    ELSE IF Returned THEN Result ELSE NULL

\* The idle entries of the history.
IdleJumps == {j \in 1..Len(gantt) : gantt[j].idx = NO_JOB}

\* C20: the history of a scheduler is one unbroken timeline from 0 to the
\* clock, made of executed slices and idle jumps; an idle jump from t starts
\* when every process that has arrived by t is complete, moves the clock
\* forward, and ends exactly at the earliest arrival after t: no process
\* that arrives before its end has work left during it.
C20_WorkConserving ==
    Current # NULL =>
        /\ gantt # <<>> => gantt[1].from = 0 /\ gantt[Len(gantt)].to = current_time
        /\ gantt = <<>> => current_time = 0
        /\ \A j \in 1..Len(gantt) - 1 : gantt[j + 1].from = gantt[j].to
        /\ \A j \in IdleJumps :
              LET e == gantt[j]
                  later == {k \in Indices : Current[k].arrival_time > e.from}
              IN  /\ e.from < e.to
                  /\ \E k \in later : Current[k].arrival_time = e.to
                  /\ \A k \in later : e.to <= Current[k].arrival_time
                  /\ \A k \in Indices :
                        Current[k].arrival_time < e.to =>
                            /\ Current[k].remaining_time = 0
                            /\ Current[k].completion_time <= e.from
                            /\ Current[k].completion_time > 0

\* A scheduler has returned after jumping over an idle gap between a
\* completion and a later arrival.
C20_Witness ==
    /\ Returned
    /\ \E j \in IdleJumps :
          /\ j > 1 /\ j < Len(gantt) /\ gantt[j].to > gantt[j].from
          /\ gantt[j - 1].idx # NO_JOB
          /\ Result[gantt[j - 1].idx].completion_time = gantt[j].from
          /\ Result[gantt[j + 1].idx].arrival_time = gantt[j].to

\* C21: in Round Robin the break branch is never taken: whenever the loop
\* condition completed < n holds, the queue after the arrivals loop is not
\* empty or arrivals are left, and rr_schedule returns with every process
\* finished.
C21_BreakUnreachable ==
    /\ pc = "rr_loop" /\ completed < n => ~RrBreaks
    /\ pc = "rr_done" => completed = n /\ Completed(rr_processes)

\* The queue has drained in mid-run while a later arrival is still to come.
C21_Witness ==
    /\ pc = "rr_loop" /\ completed > 0 /\ completed < n
    /\ is_empty(Arrived.queue) /\ Arrived.next < n

\* The queue holds every process below `next` that has time left, once each,
\* and nothing else; it is not full.
QueueExact(queue, next) ==
    LET held == QueueContents(queue)
    IN  /\ \A a, b \in 1..Len(held) : a # b => held[a] # held[b]
        /\ {held[a] : a \in 1..Len(held)}
               = {k \in Indices : k < next /\ rr_processes[k].remaining_time > 0}
        /\ queue.size <= n
        /\ ~is_full(queue)

\* C22: at every iteration of Round Robin, before and after the arrivals
\* loop, the ready queue holds exactly the arrived unfinished processes,
\* each once (none dropped, none completed, at most n), below its capacity;
\* the process taken from the front to execute is not in what stays queued.
C22_QueueNeverOverflows ==
    pc = "rr_loop" =>
        /\ QueueExact(ready_queue, next_arrival_idx)
        /\ QueueExact(Arrived.queue, Arrived.next)
        /\ ~is_empty(Arrived.queue) =>
              LET rest == QueueContents(dequeue(Arrived.queue))
              IN  \A a \in 1..Len(rest) : rest[a] # DequeuedValue(Arrived.queue)

\* The queue holds all n processes, one of them put back after a slice.
C22_Witness ==
    /\ pc = "rr_loop" /\ n > 1
    /\ ready_queue.size = n
    /\ \E k \in Indices :
          /\ rr_processes[k].started
          /\ QueueContents(ready_queue)[n] = k

\* C23: FCFS dispatches in array order, the array it works on ascends in
\* arrival_time, and processes of equal arrival_time keep their input order
\* (id is the input position).
C23_FcfsStableOrder ==
    fcfs_processes # NULL =>
        /\ \A a, b \in Indices :
              a < b =>
                  \/ fcfs_processes[a].arrival_time < fcfs_processes[b].arrival_time
                  \/ /\ fcfs_processes[a].arrival_time = fcfs_processes[b].arrival_time
                     /\ fcfs_processes[a].id < fcfs_processes[b].id
        /\ pc = "fcfs_loop" =>
              \A j, l \in 1..Len(gantt) :
                  j < l /\ gantt[j].idx # NO_JOB /\ gantt[l].idx # NO_JOB
                      => gantt[j].idx < gantt[l].idx

\* C24: in Round Robin a started process has waited at most (n-1) quanta
\* for its first dispatch, and between two successive slices of a process
\* the timeline holds only slices of other processes, each of them once
\* (so at most n-1).
C24_RrBoundedWaiting ==
    pc \in {"rr_loop", "rr_done"} =>
        /\ \A k \in Indices :
              rr_processes[k].started =>
                  rr_processes[k].response_time <= (n - 1) * time_quantum
        /\ \A k \in Indices : \A j, l \in RunsOf(k) :
              j < l /\ (\A m \in RunsOf(k) : ~(j < m /\ m < l)) =>
                  /\ l - j - 1 <= n - 1
                  /\ \A a, b \in (j + 1)..(l - 1) :
                        /\ gantt[a].idx # NO_JOB
                        /\ a # b => gantt[a].idx # gantt[b].idx

\* The bound is met: a process waited (n-1) quanta for its first slice, and
\* n-1 slices of others lie between two of its slices.
C24_Witness ==
    /\ pc = "rr_done" /\ n > 1
    /\ \E k \in Indices :
          /\ rr_processes[k].response_time = (n - 1) * time_quantum
          /\ \E j, l \in RunsOf(k) : l - j - 1 = n - 1

\* The time the entries j..last of the history give to anything but process
\* k (other processes' slices, idle jumps).
RECURSIVE TimeNotExecuting(_, _, _)
TimeNotExecuting(k, j, last) ==
    IF j > last THEN 0
    ELSE (IF gantt[j].idx # k THEN gantt[j].to - gantt[j].from ELSE 0)
         + TimeNotExecuting(k, j + 1, last)

FirstRun(k) == CHOOSE j \in RunsOf(k) : \A l \in RunsOf(k) : j <= l
LastRun(k) == CHOOSE j \in RunsOf(k) : \A l \in RunsOf(k) : l <= j

\* C25: when SRTF or Round Robin has returned, waiting_time - response_time
\* of a process is the time between its first dispatch and its completion
\* that it spent not executing: 0 if its slices are contiguous, more than 0
\* if a slice of another process lies between two of them.
C25_WaitingMinusResponse ==
    pc \in {"srtf_done", "rr_done"} =>
        \A k \in Indices :
            LET p == Result[k]
                between == {j \in FirstRun(k)..LastRun(k) : gantt[j].idx # k}
            IN  /\ RunsOf(k) # {}
                /\ p.waiting_time - p.response_time
                       = TimeNotExecuting(k, FirstRun(k), LastRun(k))
                /\ between = {} => p.waiting_time = p.response_time
                /\ between # {} => p.waiting_time > p.response_time

\* One process was interrupted, another one waited and then ran its slices
\* in one piece.
C25_Witness ==
    /\ pc \in {"srtf_done", "rr_done"}
    /\ \E k, j \in Indices :
          /\ Result[k].waiting_time > Result[k].response_time
          /\ Cardinality(RunsOf(k)) > 1
          /\ Result[j].waiting_time = Result[j].response_time
          /\ Result[j].response_time > 0

\* All four algorithms have run on copies of one loaded set.
AllRan == algorithm = "all" /\ pc = "exit"

TotalOf(copy, field) == SumOver(copy, field, n)

\* C26: the turnaround times of SRTF sum to no more than those of FCFS, of
\* SJF and of Round Robin (any quantum within the bounds) on the same set,
\* and so do its waiting times.
C26_SrtfLeastTotalTurnaround ==
    AllRan =>
        \A field \in {"turnaround_time", "waiting_time"} :
            /\ TotalOf(srtf_processes, field) <= TotalOf(fcfs_processes, field)
            /\ TotalOf(srtf_processes, field) <= TotalOf(sjf_processes, field)
            /\ TotalOf(srtf_processes, field) <= TotalOf(rr_processes, field)

\* A set on which SRTF is strictly better than each of the other three.
C26_Witness ==
    /\ AllRan
    /\ TotalOf(srtf_processes, "turnaround_time")
           < TotalOf(fcfs_processes, "turnaround_time")
    /\ TotalOf(srtf_processes, "turnaround_time")
           < TotalOf(sjf_processes, "turnaround_time")
    /\ TotalOf(srtf_processes, "turnaround_time")
           < TotalOf(rr_processes, "turnaround_time")
=============================================================================
